---- MODULE Spec2Model ----
(***************************************************************************)
(* A model of the mdp package of go-rl: the MDP aggregate (mdp struct),    *)
(* its RewardsTable and TransitionTable, and the public operations that    *)
(* build and edit it.                                                      *)
(*                                                                         *)
(* Go values are modelled as follows.                                      *)
(*  - A State or Action is a pointer to an immutable struct.  It is a      *)
(*    record of its fields plus an object identity `oid`: two records are  *)
(*    equal iff they are the same Go object.  The nil interface value is   *)
(*    NilState / NilAction.                                                *)
(*  - A Go map is a function whose DOMAIN is the set of keys present.      *)
(*  - The slice m.states is the function `states` from the non-nil slots   *)
(*    to their State, together with its length `statesLen`.                *)
(*  - A float32 reward or probability is an integer number of hundredths   *)
(*    (the code never does arithmetic or comparisons on them).  A discount *)
(*    rate is a record that is either a number of hundredths or NaN,       *)
(*    because the code compares it.                                        *)
(*  - A run-time panic (nil dereference, index out of range) ends the      *)
(*    program: phase becomes "panic" with the mutations made so far.       *)
(***************************************************************************)
EXTENDS Integers, Sequences, FiniteSets, TLC

\* Starting number of available states (var defaultStatesCapacity).
defaultStatesCapacity == 128

\* ---- bounds of the model ----
\* State indexes passed by the caller are -1, 0..MaxIndex and defaultStatesCapacity.
MaxIndex == 1
\* Distinct live State objects with identical fields.
MaxStateOid == 3
\* Distinct live Action objects with the same name.
MaxActionOid == 2
\* Length of the `states` lists passed to NewMDP (the list ManyStates apart).
MaxListLen == 2
\* Public operations called after construction.
MaxOps == 2
\* Reward entries and transition entries of an aggregate that String is called on.
MaxRendered == 3

\* calls made on the grid world: its nine AddStateObject calls and two queries
MaxGridOps == 11

\* ---- generic helpers for Go maps ----
Put(f, k, v) == [x \in (DOMAIN f) \cup {k} |-> IF x = k THEN v ELSE f[x]]

Del(f, k) == [x \in (DOMAIN f) \ {k} |-> f[x]]

Range(f) == {f[x] : x \in DOMAIN f}

EmptyMap == [x \in {} |-> 0]

Min(S) == CHOOSE x \in S : \A y \in S : x <= y

\* ---- State (state.go) ----
NilState == [name |-> "", index |-> -1, terminal |-> FALSE, oid |-> 0]

\* ---- Action (action.go) ----
NilAction == [name |-> "", oid |-> 0]

\* ---- Transition (transition.go) ----
\* The destination is kept by its fields only (oid 0): the code reads a
\* destination through Name() and Index(), never by identity.
Dest(s) == [s EXCEPT !.oid = 0]

NewTransition(probability, nextState) ==
    [probability |-> probability, nextState |-> Dest(nextState), isNil |-> FALSE]

NilTransition == [probability |-> 0, nextState |-> NilState, isNil |-> TRUE]

\* ---- float32 discount rates ----
F(v) == [nan |-> FALSE, v |-> v]

NaN == [nan |-> TRUE, v |-> 0]

\* discountRate <= 0 || discountRate > 1.0 (every comparison with NaN is false)
RateRejected(discountRate) ==
    (~discountRate.nan /\ discountRate.v <= 0) \/ (~discountRate.nan /\ discountRate.v > 100)


\* ---- input values drawn by the caller ----
StateNames == {"A", "B"}

ActionNames == {"U", "R"}

Indexes == (-1 .. MaxIndex) \cup {defaultStatesCapacity}

DiscountRates == {F(0), F(50), F(100), F(101), NaN}

\* State objects the caller builds as destinations of transitions.
DestA == [name |-> "A", index |-> 0, terminal |-> FALSE, oid |-> 0]

DestB == [name |-> "B", index |-> 1, terminal |-> FALSE, oid |-> 0]

\* map[string]Transition arguments
TransitionsByName ==
    { EmptyMap,
      [a \in {"U"} |-> NewTransition(50, DestB)],
      [a \in {"U", "R"} |-> IF a = "U" THEN NewTransition(50, DestB) ELSE NewTransition(50, DestA)] }

\* ---- the aggregate (type mdp struct) ----
\* The value of `m` before NewMDP has run, and after NewMDP returned (nil, err).
NoMDP ==
    [ initialState   |-> NilState,
      states         |-> EmptyMap,
      statesLen      |-> 0,
      statesCapacity |-> 0,
      actions        |-> EmptyMap,
      rewards        |-> [table |-> EmptyMap, stateMap |-> EmptyMap],
      transitions    |-> EmptyMap,
      discountRate   |-> F(0),
      stateMap       |-> EmptyMap,
      stateIndexMap  |-> EmptyMap ]

\* An outcome of a call: the aggregate afterwards and what the call returned
\* ("nil" for a nil error, an error kind, or "panic").
Outcome(m, res) == [m |-> m, res |-> res]

\* ---- object identities ----
InUseStates(m) ==
    Range(m.states) \cup Range(m.stateMap) \cup Range(m.stateIndexMap)
        \cup {m.initialState} \cup (DOMAIN m.transitions) \cup Range(m.rewards.stateMap)

InUseActions(m) ==
    Range(m.actions) \cup UNION {DOMAIN m.transitions[s] : s \in DOMAIN m.transitions}

FreeStateOids(m, name, index, terminal) ==
    {k \in 1 .. MaxStateOid :
        [name |-> name, index |-> index, terminal |-> terminal, oid |-> k] \notin InUseStates(m)}

FreeActionOids(m, name) ==
    {k \in 1 .. MaxActionOid : [name |-> name, oid |-> k] \notin InUseActions(m)}

\* NewState: a State object distinct from every object the aggregate holds.
NewState(m, name, index, terminal) ==
    [name |-> name, index |-> index, terminal |-> terminal,
     oid |-> Min(FreeStateOids(m, name, index, terminal))]

\* NewAction: an Action object distinct from every object the aggregate holds.
NewAction(m, name) == [name |-> name, oid |-> Min(FreeActionOids(m, name))]

\* ---- RewardsTable (rewards_table.go) ----
NewRewards == [table |-> EmptyMap, stateMap |-> EmptyMap]

\* A Set that records the State but not its reward.
rewardsTable_SetWithoutReward(r, state, reward) ==
    [table |-> r.table, stateMap |-> Put(r.stateMap, state.index, state)]

rewardsTable_Set(r, state, reward) ==
    [table |-> Put(r.table, state.index, reward),
     stateMap |-> Put(r.stateMap, state.index, state)]

rewardsTable_Remove(r, state) ==
    [table |-> Del(r.table, state.index), stateMap |-> Del(r.stateMap, state.index)]

\* ---- TransitionTableEntry and TransitionTable ----
NewTransitionTableEntry == EmptyMap

transitionTableEntry_Set(e, action, probability, nextState) ==
    Put(e, action, NewTransition(probability, nextState))

transitionTableEntry_Remove(e, action) == Del(e, action)

NewTransitionTable == EmptyMap

transitionTable_Set(t, state, entry) == Put(t, state, entry)

\* A Remove that also drops, from the other entries, the transitions into the state.
transitionTable_RemoveCascading(t, state) ==
    [x \in (DOMAIN t) \ {state} |->
        [a \in {b \in DOMAIN t[x] : t[x][b].nextState.index # state.index} |-> t[x][a]]]

transitionTable_Remove(t, state) == Del(t, state)

\* ---- lookups of the aggregate ----
getStateByName(m, state) ==
    IF state \in DOMAIN m.stateMap THEN m.stateMap[state] ELSE NilState

getStateByIndex(m, index) ==
    IF index \in DOMAIN m.stateIndexMap THEN m.stateIndexMap[index] ELSE NilState

getAction(m, action) ==
    IF action \in DOMAIN m.actions THEN m.actions[action] ELSE NilAction

\* ---- construction ----
\* The entries `for action := range transitions[state] { entry.Set(m.actions[action], ...) }`
\* can build: m.actions[action] is nil for an unregistered name, and when two
\* names map to the same key the iteration order of the Go map decides which
\* transition stays.
EntriesByName(transitions, actions) ==
    LET keyOf(a) == IF a \in DOMAIN actions THEN actions[a] ELSE NilAction
        keys     == {keyOf(a) : a \in DOMAIN transitions}
        vals     == {NewTransition(transitions[a].probability, transitions[a].nextState) :
                        a \in DOMAIN transitions}
    IN  {e \in [keys -> vals] :
            \A k \in keys : \E a \in DOMAIN transitions :
                keyOf(a) = k
                /\ e[k] = NewTransition(transitions[a].probability, transitions[a].nextState)}

\* The loop of NewMDP over `states`: the set of outcomes (one per iteration
\* order of the transition maps).  P is the set of positions of the list
\* whose name is not the initial state's (the iterations that register a
\* State); the State of position k gets index 1 + (number of positions of P
\* before k) and is appended after the slots the slice already has.
NewMDPStates(m, initialState, states, terminals, rewards, transitions) ==
    LET P       == {k \in 1 .. Len(states) : states[k] # initialState}
        rank    == [k \in P |-> Cardinality({j \in P : j < k})]
        tmap    == [k \in P |-> IF states[k] \in DOMAIN transitions
                                THEN transitions[states[k]] ELSE EmptyMap]
        s       == [k \in P |-> NewState(m, states[k], 1 + rank[k], states[k] \in terminals)]
        \* the position whose State is at index i / the last position of name n
        atIndex == [i \in {1 + rank[k] : k \in P} |-> CHOOSE k \in P : 1 + rank[k] = i]
        lastOf  == [n \in {states[k] : k \in P} |->
                       CHOOSE k \in P : states[k] = n /\ \A j \in P : states[j] = n => j <= k]
        entries == {e \in [P -> UNION {EntriesByName(tmap[k], m.actions) : k \in P}] :
                       \A k \in P : e[k] \in EntriesByName(tmap[k], m.actions)}
    IN  IF \E k \in P : DOMAIN tmap[k] # {} /\ states[k] \notin terminals
        THEN {Outcome(NoMDP, "action not in MDP")}
        ELSE
          { Outcome(
              [m EXCEPT
                 !.states = [x \in (DOMAIN m.states) \cup {m.statesLen + i - 1 : i \in DOMAIN atIndex} |->
                                IF x \in DOMAIN m.states THEN m.states[x]
                                ELSE s[atIndex[x - m.statesLen + 1]]],
                 !.statesLen = @ + Cardinality(P),
                 !.stateMap = [n \in (DOMAIN m.stateMap) \cup (DOMAIN lastOf) |->
                                  IF n \in DOMAIN lastOf THEN s[lastOf[n]] ELSE m.stateMap[n]],
                 !.stateIndexMap = [i \in (DOMAIN m.stateIndexMap) \cup (DOMAIN atIndex) |->
                                       IF i \in DOMAIN atIndex THEN s[atIndex[i]]
                                       ELSE m.stateIndexMap[i]],
                 !.rewards = [table |-> [i \in DOMAIN atIndex |->
                                            IF states[atIndex[i]] \in DOMAIN rewards
                                            THEN rewards[states[atIndex[i]]] ELSE 0],
                              stateMap |-> [i \in DOMAIN atIndex |-> s[atIndex[i]]]],
                 !.transitions = [x \in {s[k] : k \in P} |->
                                     e[CHOOSE k \in P : s[k] = x]]],
              "nil") : e \in entries }

\* NewMDP: the set of outcomes of the constructor.  `actions` is the set of
\* names in the actions list.
NewMDP(initialState, states, terminals, actions, rewards, transitions, discountRate) ==
    IF RateRejected(discountRate) THEN {Outcome(NoMDP, "invalid discount rate")}
    ELSE
      LET m0 == [NoMDP EXCEPT !.statesCapacity = defaultStatesCapacity,
                              !.statesLen = defaultStatesCapacity]
          init == NewState(m0, initialState, 0, FALSE)
          m1 == IF initialState # ""
                THEN [m0 EXCEPT !.initialState = init,
                                !.states = Put(@, m0.statesLen, init),
                                !.statesLen = @ + 1,
                                !.stateMap = Put(@, initialState, init),
                                !.stateIndexMap = Put(@, 0, init)]
                ELSE m0
          m2 == [m1 EXCEPT !.actions = [a \in actions |-> NewAction(m1, a)]]
      IN  { IF o.res = "nil" THEN Outcome([o.m EXCEPT !.discountRate = discountRate], "nil") ELSE o :
              o \in NewMDPStates(m2, initialState, states, terminals, rewards, transitions) }

NewDefaultMDP == NewMDP("", <<>>, {}, {}, EmptyMap, EmptyMap, F(100))

\* ---- mutation ----
appendStateToList(m, state) ==
    LET index == state.index
        grow  == index >= m.statesCapacity
        cap   == IF grow THEN index * 2 ELSE m.statesCapacity
        len   == IF grow THEN cap ELSE m.statesLen
    IN  IF index < 0 THEN Outcome(m, "index must be non-negative")
        ELSE IF grow /\ m.statesLen > cap
        THEN \* newStates[i] = state with i >= len(newStates)
             Outcome([m EXCEPT !.statesCapacity = cap], "panic")
        ELSE IF index >= len
        THEN Outcome([m EXCEPT !.statesCapacity = cap, !.statesLen = len], "panic")
        ELSE Outcome([m EXCEPT !.statesCapacity = cap, !.statesLen = len,
                               !.states = Put(@, index, state)], "nil")

\* An AddActionObject that replaces the Action registered under the name.
AddActionObjectOverwriting(m, action) ==
    Outcome([m EXCEPT !.actions = Put(@, action.name, action)], "nil")

AddActionObject(m, action) ==
    IF getAction(m, action.name) # NilAction THEN Outcome(m, "action already exists")
    ELSE Outcome([m EXCEPT !.actions = Put(@, action.name, action)], "nil")

AddAction(m, action) ==
    IF getAction(m, action) # NilAction THEN Outcome(m, "action already exists")
    ELSE Outcome([m EXCEPT !.actions = Put(@, action, NewAction(m, action))], "nil")

\* Delete the old state at the given index (the block shared by SetState and SetStateObject).
DeleteOldState(m, index) ==
    LET sOld == getStateByIndex(m, index)
    IN  IF sOld # NilState
        THEN [m EXCEPT !.rewards = rewardsTable_Remove(@, sOld),
                       !.transitions = transitionTable_Remove(@, sOld)]
        ELSE m

SetState(m, state, index, terminal, reward, transitions) ==
    IF index < 0 THEN Outcome(m, "index must be non-negative")
    ELSE IF state = "" THEN Outcome(m, "name must be provided")
    ELSE
      LET s  == NewState(m, state, index, terminal)
          ap == appendStateToList(DeleteOldState(m, index), s)
          m2 == [ap.m EXCEPT !.stateMap = Put(@, state, s),
                             !.stateIndexMap = Put(@, index, s),
                             !.rewards = rewardsTable_Set(@, s, reward)]
          \* every unknown action name is registered with a new Action
          acts  == [a \in (DOMAIN m2.actions) \cup (DOMAIN transitions) |->
                       IF a \in DOMAIN m2.actions THEN m2.actions[a] ELSE NewAction(m2, a)]
          entry == [a \in {acts[n] : n \in DOMAIN transitions} |->
                       NewTransition(transitions[a.name].probability, transitions[a.name].nextState)]
          m3 == [m2 EXCEPT !.actions = acts,
                           !.transitions = transitionTable_Set(@, s, entry)]
      IN  IF ap.res # "nil" THEN ap
          ELSE Outcome(IF index = 0 THEN [m3 EXCEPT !.initialState = s] ELSE m3, "nil")

\* A SetStateObject that checks the name after it deleted the old state.
SetStateObjectNameCheckedLate(m, state, reward, transitions) ==
    IF state.index < 0 THEN Outcome(m, "index must be non-negative")
    ELSE IF state.name = "" THEN Outcome(DeleteOldState(m, state.index), "name must be provided")
    ELSE
      LET ap == appendStateToList(DeleteOldState(m, state.index), state)
          m2 == [ap.m EXCEPT !.stateMap = Put(@, state.name, state),
                             !.stateIndexMap = Put(@, state.index, state),
                             !.rewards = rewardsTable_Set(@, state, reward)]
          unknown == {a \in DOMAIN transitions : getAction(m2, a.name) = NilAction}
          entry == [a \in DOMAIN transitions |->
                       NewTransition(transitions[a].probability, transitions[a].nextState)]
          acts  == [n \in (DOMAIN m2.actions) \cup {a.name : a \in unknown} |->
                       IF n \in DOMAIN m2.actions THEN m2.actions[n]
                       ELSE CHOOSE a \in unknown : a.name = n]
          m3 == [m2 EXCEPT !.actions = acts,
                           !.transitions = transitionTable_Set(@, state, entry)]
      IN  IF ap.res # "nil" THEN ap
          ELSE Outcome(IF state.index = 0 THEN [m3 EXCEPT !.initialState = state] ELSE m3, "nil")

\* `transitions` is a map[Action]Transition: a function from Action objects.
SetStateObject(m, state, reward, transitions) ==
    IF state.index < 0 THEN Outcome(m, "index must be non-negative")
    ELSE IF state.name = "" THEN Outcome(m, "name must be provided")
    ELSE
      LET ap == appendStateToList(DeleteOldState(m, state.index), state)
          m2 == [ap.m EXCEPT !.stateMap = Put(@, state.name, state),
                             !.stateIndexMap = Put(@, state.index, state),
                             !.rewards = rewardsTable_Set(@, state, reward)]
          \* an action whose name is unknown is registered (a map of this
          \* model holds at most one Action per name)
          unknown == {a \in DOMAIN transitions : getAction(m2, a.name) = NilAction}
          entry == [a \in DOMAIN transitions |->
                       NewTransition(transitions[a].probability, transitions[a].nextState)]
          acts  == [n \in (DOMAIN m2.actions) \cup {a.name : a \in unknown} |->
                       IF n \in DOMAIN m2.actions THEN m2.actions[n]
                       ELSE CHOOSE a \in unknown : a.name = n]
          m3 == [m2 EXCEPT !.actions = acts,
                           !.transitions = transitionTable_Set(@, state, entry)]
      IN  IF ap.res # "nil" THEN ap
          ELSE Outcome(IF state.index = 0 THEN [m3 EXCEPT !.initialState = state] ELSE m3, "nil")

SetInitialState(m, state, reward, transitions) ==
    SetState(m, state, 0, FALSE, reward, transitions)

SetInitialStateObject(m, state, reward, transitions) ==
    SetStateObject(m, state, reward, transitions)

\* Find first empty index: the first nil slot of m.states, or len(m.states).
FirstEmptyIndex(m) == Min({i \in 0 .. m.statesLen : i \notin DOMAIN m.states})

AddState(m, state, terminal, reward, transitions) ==
    SetState(m, state, FirstEmptyIndex(m), terminal, reward, transitions)

\* The index it computes is not used.
AddStateObject(m, state, reward, transitions) ==
    SetStateObject(m, state, reward, transitions)

RemoveStateByIndex(m, index) ==
    LET sOld == getStateByIndex(m, index)
    IN  IF sOld = NilState THEN Outcome(m, "state doesn't exist")
        ELSE IF index >= m.statesLen THEN Outcome(m, "panic")
        ELSE Outcome([m EXCEPT !.states = Del(@, index),
                               !.rewards = rewardsTable_Remove(@, sOld),
                               !.transitions = transitionTable_Remove(@, sOld)], "nil")

RemoveStateByName(m, state) ==
    IF getStateByName(m, state) = NilState THEN Outcome(m, "state doesn't exist")
    ELSE RemoveStateByIndex(m, getStateByName(m, state).index)

RemoveStateByObject(m, state) ==
    IF getStateByName(m, state.name) = NilState THEN Outcome(m, "state doesn't exist")
    ELSE RemoveStateByIndex(m, getStateByName(m, state.name).index)

\* for _, state := range m.states { m.transitions.Get(state).Remove(a) }:
\* transitions.Get returns nil for a nil slot and for a state without an
\* entry, and Remove on that nil entry panics.
RemoveAction(m, action) ==
    LET a     == getAction(m, action)
        m1    == [m EXCEPT !.actions = Del(@, action)]
        bad   == {i \in 0 .. m.statesLen - 1 :
                     i \notin DOMAIN m.states \/ m.states[i] \notin DOMAIN m.transitions}
        upto  == IF bad = {} THEN m.statesLen ELSE Min(bad)
        done  == {m.states[i] : i \in 0 .. upto - 1}
        m2    == [m1 EXCEPT !.transitions =
                     [s \in DOMAIN @ |-> IF s \in done THEN transitionTableEntry_Remove(@[s], a)
                                         ELSE @[s]]]
    IN  IF a = NilAction THEN Outcome(m, "action doesn't exist")
        ELSE IF bad = {} THEN Outcome(m2, "nil")
        ELSE Outcome(m2, "panic")

RemoveActionObject(m, action) == RemoveAction(m, action.name)

SetDiscountRate(m, discountRate) ==
    IF RateRejected(discountRate) THEN Outcome(m, "invalid discount rate")
    ELSE Outcome([m EXCEPT !.discountRate = discountRate], "nil")

\* An Update that creates the entry of a state that has none.
transitionTable_UpdateCreating(m, state, action, probability, nextState) ==
    Outcome([m EXCEPT !.transitions =
                transitionTable_Set(@, state,
                    transitionTableEntry_Set(IF state \in DOMAIN @ THEN @[state]
                                             ELSE NewTransitionTableEntry,
                                             action, probability, nextState))], "return")

\* An Update that replaces the state's entry by one that holds the new transition only.
transitionTable_UpdateReplacing(m, state, action, probability, nextState) ==
    IF state \notin DOMAIN m.transitions THEN Outcome(m, "panic")
    ELSE Outcome([m EXCEPT !.transitions[state] =
                     transitionTableEntry_Set(NewTransitionTableEntry, action, probability,
                                              nextState)], "return")

\* transitionTable.Update: t.table[state].Set(...) panics when the state has no entry.
transitionTable_Update(m, state, action, probability, nextState) ==
    IF state \notin DOMAIN m.transitions THEN Outcome(m, "panic")
    ELSE Outcome([m EXCEPT !.transitions[state] =
                     transitionTableEntry_Set(@, action, probability, nextState)], "return")

SetTransition(m, startState, endState, action, probability) ==
    transitionTable_Update(m, getStateByName(m, startState), getAction(m, action),
                           probability, getStateByName(m, endState))

\* transitionTableEntry.RemoveTransition: the set of entries it can leave and
\* whether it panicked.  transition.NextState().Equals(nextState) panics on a
\* nil destination and on a nil argument; the transitions visited before
\* that (in the map's iteration order) have been handled.
transitionTableEntry_RemoveTransition(e, nextState) ==
    LET hit    == {a \in DOMAIN e : e[a].nextState # NilState /\ nextState # NilState
                                    /\ e[a].nextState.index = nextState.index}
        faulty == {a \in DOMAIN e : e[a].nextState = NilState \/ nextState = NilState}
        without(R) == [a \in (DOMAIN e) \ R |-> e[a]]
    IN  IF faulty = {} THEN {[entry |-> without(hit), res |-> "return"]}
        ELSE {[entry |-> without(R), res |-> "panic"] : R \in SUBSET hit}

RemoveTransition(m, startState, endState) ==
    LET s == getStateByName(m, startState)
    IN  IF s \notin DOMAIN m.transitions THEN {Outcome(m, "panic")}
        ELSE {Outcome([m EXCEPT !.transitions[s] = o.entry], o.res) :
                o \in transitionTableEntry_RemoveTransition(m.transitions[s],
                                                            getStateByName(m, endState))}

RemoveTransitionByAction(m, startState, action) ==
    LET s == getStateByName(m, startState)
    IN  IF s \notin DOMAIN m.transitions THEN Outcome(m, "panic")
        ELSE Outcome([m EXCEPT !.transitions[s] =
                         transitionTableEntry_Remove(@, getAction(m, action))], "return")

\* ---- queries ----
\* rewardsTable.Get: state.Index() on the nil State panics; a missing key of
\* r.table reads as the zero value.
rewardsTable_Get(r, state) ==
    IF state = NilState THEN [res |-> "panic", reward |-> 0]
    ELSE [res |-> "return",
          reward |-> IF state.index \in DOMAIN r.table THEN r.table[state.index] ELSE 0]

R(m, state) == rewardsTable_Get(m.rewards, getStateByName(m, state))

RByIndex(m, stateIndex) == rewardsTable_Get(m.rewards, getStateByIndex(m, stateIndex))

\* transitionTable.Get: the entry of the state, or the nil TransitionTableEntry.
transitionTable_Get(t, state) ==
    IF state \in DOMAIN t THEN [isNil |-> FALSE, entry |-> t[state]]
    ELSE [isNil |-> TRUE, entry |-> EmptyMap]

transitionTableEntry_Get(e, action) ==
    IF action \in DOMAIN e THEN e[action] ELSE NilTransition

\* m.transitions.Get(state).Get(action): Get on the nil entry panics.
TOfState(m, state, action) ==
    LET e == transitionTable_Get(m.transitions, state)
    IN  IF e.isNil THEN [res |-> "panic", transition |-> NilTransition]
        ELSE [res |-> "return",
              transition |-> transitionTableEntry_Get(e.entry, getAction(m, action))]

T(m, state, action) == TOfState(m, getStateByName(m, state), action)

TByIndex(m, stateIndex, action) == TOfState(m, getStateByIndex(m, stateIndex), action)

\* ---- String ----
\* A rendered text is modelled by its parts.  A "{ ... }" block is the
\* sequence of its lines and whether its opening brace is there: String
\* builds "{\n" + lines, each ending in ",\n", and cuts the last two bytes,
\* which are the ",\n" of the last line or, with no line, the "{\n" itself.
Block(lines) == [open |-> lines # <<>>, lines |-> lines]

\* The orders in which a range over a Go map with key set S can visit it.
Orders(S) == {p \in [1 .. Cardinality(S) -> S] : \A x \in S : \E i \in DOMAIN p : p[i] = x}

\* The elements of a set of integers in increasing order.
Ascending(S) == [i \in 1 .. Cardinality(S) |-> CHOOSE x \in S : Cardinality({y \in S : y < x}) = i - 1]

\* state.String: "S_" + string(s.index) + ": " + s.name, where string(int) is
\* the character with that code point (kept as the number).
state_String(s) == <<"S_", s.index, ": ", s.name>>

\* action.String
action_String(a) == a.name

\* transition.String: "(" + probability + ", " + nextState.Name() + ")"
transition_String(t) == <<"(", t.probability, ", ", t.nextState.name, ")">>

\* rewardsTable.String: one line per key of r.table, in the map's order.
rewardsTable_String(r) ==
    { Block([i \in DOMAIN p |-> <<state_String(r.stateMap[p[i]]), ": ", r.table[p[i]]>>]) :
        p \in Orders(DOMAIN r.table) }

\* transitionTableEntry.String: action.String() panics on the nil Action and
\* transition.String() on a nil destination.
transitionTableEntry_String(e) ==
    IF \E a \in DOMAIN e : a = NilAction \/ e[a].nextState = NilState
    THEN {[res |-> "panic", text |-> Block(<<>>)]}
    ELSE {[res |-> "return",
           text |-> Block([i \in DOMAIN p |->
                              <<action_String(p[i]), ": ", transition_String(e[p[i]])>>])] :
            p \in Orders(DOMAIN e)}

\* transitionTable.String: one line per state, in the map's order.
transitionTable_String(t) ==
    IF \E x \in DOMAIN t : \E o \in transitionTableEntry_String(t[x]) : o.res = "panic"
    THEN {[res |-> "panic", text |-> Block(<<>>)]}
    ELSE {[res |-> "return",
           text |-> Block([i \in DOMAIN p |-> <<state_String(p[i]), ": ", f[p[i]].text>>])] :
            p \in Orders(DOMAIN t),
            f \in {g \in [DOMAIN t -> UNION {transitionTableEntry_String(t[x]) : x \in DOMAIN t}] :
                      \A x \in DOMAIN t : g[x] \in transitionTableEntry_String(t[x])}}

\* What String returns when it panics.
NoText == [S |-> <<>>, A |-> "", R |-> Block(<<>>), T |-> Block(<<>>), discountRate |-> F(0)]

\* The names of a sequence of Actions, concatenated.
RECURSIVE Concatenated(_)
Concatenated(as) ==
    IF as = <<>> THEN "" ELSE action_String(Head(as)) \o Concatenated(Tail(as))

\* mdp.String: the set of its outcomes.  states[:len(states)-2] cuts the last
\* ", " and panics when no slot holds a state; actions[:len(actions)-2] cuts
\* the last two bytes of the concatenated action names and panics when they
\* have fewer than two bytes.
mdp_String(m) ==
    LET slots  == Ascending(DOMAIN m.states)
        states == [i \in DOMAIN slots |-> state_String(m.states[slots[i]])]
        cut(actions) == SubSeq(actions, 1, Len(actions) - 2)
    IN  IF states = <<>> THEN {[res |-> "panic", text |-> NoText]}
        ELSE UNION {
               IF Len(Concatenated(p)) < 2 THEN {[res |-> "panic", text |-> NoText]}
               ELSE IF \E t \in transitionTable_String(m.transitions) : t.res = "panic"
               THEN {[res |-> "panic", text |-> NoText]}
               ELSE {[res |-> "return",
                      text |-> [S |-> states, A |-> cut(Concatenated(p)), R |-> r, T |-> t.text,
                                discountRate |-> m.discountRate]] :
                       r \in rewardsTable_String(m.rewards),
                       t \in transitionTable_String(m.transitions)} :
               p \in Orders(Range(m.actions)) }

\* ---- the program: a caller that constructs an aggregate and calls its operations ----
VARIABLES
    m,      \* the aggregate (NoMDP before construction and after a failed one)
    phase,  \* "new", "ready", "failed" (NewMDP returned an error), "panic"
    last,   \* the last call: its name, its arguments and what it returned
    nops,   \* number of calls made on the aggregate
    removed, \* history: the indexes whose state RemoveStateByIndex removed, with no
             \* state stored in that slot since
    removedNames \* history: the names of the states a RemoveStateBy... call removed,
                 \* with no state registered under that name since

vars == <<m, phase, last, nops, removed, removedNames>>

\* A call record; the arguments a call does not take keep these values.
Call(op) ==
    [ op |-> op, res |-> "", state |-> "", index |-> -1, terminal |-> FALSE,
      reward |-> 0, transitions |-> EmptyMap, stateObj |-> NilState,
      action |-> "", actionObj |-> NilAction, endState |-> "", probability |-> 0,
      discountRate |-> F(0), initialState |-> "", states |-> <<>>, terminals |-> {},
      actions |-> {}, rewards |-> EmptyMap, transitionsByState |-> EmptyMap,
      retReward |-> 0, retTransition |-> NilTransition, retString |-> NoText ]

\* ---- the arguments the caller draws ----
\* lists of at most MaxListLen state names
StateLists == UNION {[1 .. n -> StateNames] : n \in 0 .. MaxListLen}

\* A list of state names with more names than the default capacity has slots.
ManyStates == [k \in 1 .. defaultStatesCapacity + 1 |-> ToString(k)]

\* The arguments of NewMDP: every shape of initial state, state list, terminal
\* set, action list and transition map with a valid rate, every rate with
\* the arguments of NewDefaultMDP, and the list ManyStates.
NewMDPArgs ==
    { [initialState |-> i, states |-> l, terminals |-> t, actions |-> a,
       rewards |-> [s \in {"A"} |-> -200], transitions |-> tr, discountRate |-> F(50)] :
        i \in {"", "A"}, l \in StateLists, t \in {{}, {"B"}}, a \in {{}, {"U"}},
        tr \in {EmptyMap} \cup {[s \in {"B"} |-> tm] : tm \in TransitionsByName \ {EmptyMap}} }
    \cup
    { [initialState |-> "", states |-> <<>>, terminals |-> {}, actions |-> {},
       rewards |-> EmptyMap, transitions |-> EmptyMap, discountRate |-> d] :
        d \in DiscountRates }
    \cup
    { [initialState |-> "", states |-> ManyStates, terminals |-> {}, actions |-> {},
       rewards |-> EmptyMap, transitions |-> EmptyMap, discountRate |-> F(100)] }

\* (name, terminal) arguments: "A" is not terminal, "B" is.
IsTerminal(name) == name = "B"

\* State objects the caller builds and passes.
CallerStates ==
    {NewState(m, n, i, IsTerminal(n)) : n \in StateNames, i \in 0 .. MaxIndex}
        \cup {NewState(m, "", 0, FALSE), NewState(m, "A", -1, FALSE)}

\* The Action objects the caller passes for a name: the registered one (if
\* there is one) or a new one.
CallerActions(name) ==
    ({getAction(m, name)} \ {NilAction})
        \cup {[name |-> name, oid |-> k] :
                k \in {j \in FreeActionOids(m, name) : \A i \in FreeActionOids(m, name) : j <= i}}

\* map[Action]Transition arguments: a map by name with each name replaced by
\* an Action object of that name.
TransitionsByAction ==
    UNION { { [a \in {k[n] : n \in DOMAIN tm} |-> tm[a.name]] :
                k \in {f \in [DOMAIN tm -> UNION {CallerActions(n) : n \in DOMAIN tm}] :
                          \A n \in DOMAIN tm : f[n] \in CallerActions(n)} } :
            tm \in TransitionsByName }

\* The model has a new Action object for every name of `transitions` that
\* is not registered.
CanRegister(transitions) ==
    \A a \in DOMAIN transitions : getAction(m, a) = NilAction => FreeActionOids(m, a) # {}

Init ==
    /\ m = NoMDP
    /\ phase = "new"
    /\ last = Call("")
    /\ nops = 0
    /\ removed = {}
    /\ removedNames = {}

\* A call of the constructor that returns one of `outcomes`.
Construct(c, outcomes) ==
    /\ \E o \in outcomes :
        /\ m' = o.m
        /\ phase' = IF o.res = "nil" THEN "ready" ELSE "failed"
        /\ last' = [c EXCEPT !.res = o.res]
    /\ UNCHANGED <<nops, removed, removedNames>>

\* A call on the aggregate that returns o.res and leaves o.m.
Apply(c, o) ==
    /\ m' = o.m
    /\ phase' = IF o.res = "panic" THEN "panic" ELSE "ready"
    /\ last' = [c EXCEPT !.res = o.res]
    /\ nops' = nops + 1
    /\ removed' = (IF c.op = "RemoveStateByIndex" /\ o.res = "nil"
                   THEN removed \cup {c.index} ELSE removed) \ DOMAIN o.m.states
    /\ removedNames' =
          LET gone == IF o.res # "nil" THEN {}
                      ELSE IF c.op = "RemoveStateByIndex" THEN {getStateByIndex(m, c.index).name}
                      ELSE IF c.op = "RemoveStateByName" THEN {c.state}
                      ELSE IF c.op = "RemoveStateByObject" THEN {c.stateObj.name}
                      ELSE {}
              back == IF o.res # "nil" THEN {}
                      ELSE IF c.op \in {"SetState", "SetInitialState", "AddState"} THEN {c.state}
                      ELSE IF c.op \in {"SetStateObject", "SetInitialStateObject", "AddStateObject"}
                      THEN {c.stateObj.name}
                      ELSE {}
          IN  (removedNames \cup gone) \ back

\* The aggregate exists and the caller makes another call.
Ready ==
    /\ phase = "ready"
    /\ nops < MaxOps

DoNewMDP ==
    /\ phase = "new"
    /\ \E x \in NewMDPArgs :
        Construct([Call("NewMDP") EXCEPT !.initialState = x.initialState, !.states = x.states,
                       !.terminals = x.terminals, !.actions = x.actions, !.rewards = x.rewards,
                       !.transitionsByState = x.transitions, !.discountRate = x.discountRate],
                  NewMDP(x.initialState, x.states, x.terminals, x.actions, x.rewards,
                         x.transitions, x.discountRate))

DoNewDefaultMDP ==
    /\ phase = "new"
    /\ Construct(Call("NewDefaultMDP"), NewDefaultMDP)

DoSetState ==
    /\ Ready
    /\ \E state \in StateNames \cup {""}, index \in Indexes, transitions \in TransitionsByName :
        /\ CanRegister(transitions)
        /\ Apply([Call("SetState") EXCEPT !.state = state, !.index = index,
                      !.terminal = IsTerminal(state), !.reward = 1000, !.transitions = transitions],
                 SetState(m, state, index, IsTerminal(state), 1000, transitions))

DoSetStateObject ==
    /\ Ready
    /\ \E state \in CallerStates, transitions \in TransitionsByAction :
        Apply([Call("SetStateObject") EXCEPT !.stateObj = state, !.reward = 1000,
                   !.transitions = transitions],
              SetStateObject(m, state, 1000, transitions))

DoSetInitialState ==
    /\ Ready
    /\ \E state \in StateNames, transitions \in TransitionsByName :
        /\ CanRegister(transitions)
        /\ Apply([Call("SetInitialState") EXCEPT !.state = state, !.reward = 1000,
                      !.transitions = transitions],
                 SetInitialState(m, state, 1000, transitions))

DoSetInitialStateObject ==
    /\ Ready
    /\ \E state \in CallerStates :
        Apply([Call("SetInitialStateObject") EXCEPT !.stateObj = state, !.reward = 1000],
              SetInitialStateObject(m, state, 1000, EmptyMap))

DoAddState ==
    /\ Ready
    /\ \E state \in StateNames, transitions \in TransitionsByName :
        /\ CanRegister(transitions)
        /\ Apply([Call("AddState") EXCEPT !.state = state, !.terminal = IsTerminal(state),
                      !.reward = 1000, !.transitions = transitions],
                 AddState(m, state, IsTerminal(state), 1000, transitions))

DoAddStateObject ==
    /\ Ready
    /\ \E state \in CallerStates :
        Apply([Call("AddStateObject") EXCEPT !.stateObj = state, !.reward = 1000],
              AddStateObject(m, state, 1000, EmptyMap))

DoRemoveStateByIndex ==
    /\ Ready
    /\ \E index \in Indexes :
        Apply([Call("RemoveStateByIndex") EXCEPT !.index = index], RemoveStateByIndex(m, index))

DoRemoveStateByName ==
    /\ Ready
    /\ \E state \in StateNames :
        Apply([Call("RemoveStateByName") EXCEPT !.state = state], RemoveStateByName(m, state))

DoRemoveStateByObject ==
    /\ Ready
    /\ \E state \in CallerStates :
        Apply([Call("RemoveStateByObject") EXCEPT !.stateObj = state],
              RemoveStateByObject(m, state))

DoAddAction ==
    /\ Ready
    /\ \E action \in ActionNames :
        /\ getAction(m, action) = NilAction => FreeActionOids(m, action) # {}
        /\ Apply([Call("AddAction") EXCEPT !.action = action], AddAction(m, action))

DoAddActionObject ==
    /\ Ready
    /\ \E name \in ActionNames : \E action \in CallerActions(name) :
        Apply([Call("AddActionObject") EXCEPT !.actionObj = action], AddActionObject(m, action))

DoRemoveAction ==
    /\ Ready
    /\ \E action \in ActionNames :
        Apply([Call("RemoveAction") EXCEPT !.action = action], RemoveAction(m, action))

DoRemoveActionObject ==
    /\ Ready
    /\ \E name \in ActionNames : \E action \in CallerActions(name) :
        Apply([Call("RemoveActionObject") EXCEPT !.actionObj = action],
              RemoveActionObject(m, action))

DoSetDiscountRate ==
    /\ Ready
    /\ \E discountRate \in DiscountRates :
        Apply([Call("SetDiscountRate") EXCEPT !.discountRate = discountRate],
              SetDiscountRate(m, discountRate))

DoSetTransition ==
    /\ Ready
    /\ \E startState \in StateNames, endState \in StateNames, action \in ActionNames :
        Apply([Call("SetTransition") EXCEPT !.state = startState, !.endState = endState,
                   !.action = action, !.probability = 25],
              SetTransition(m, startState, endState, action, 25))

DoRemoveTransition ==
    /\ Ready
    /\ \E startState \in StateNames, endState \in StateNames :
        \E o \in RemoveTransition(m, startState, endState) :
            Apply([Call("RemoveTransition") EXCEPT !.state = startState, !.endState = endState], o)

DoRemoveTransitionByAction ==
    /\ Ready
    /\ \E startState \in StateNames, action \in ActionNames :
        Apply([Call("RemoveTransitionByAction") EXCEPT !.state = startState, !.action = action],
              RemoveTransitionByAction(m, startState, action))

DoR ==
    /\ Ready
    /\ \E state \in StateNames :
        Apply([Call("R") EXCEPT !.state = state, !.retReward = R(m, state).reward],
              Outcome(m, R(m, state).res))

DoRByIndex ==
    /\ Ready
    /\ \E index \in Indexes :
        Apply([Call("RByIndex") EXCEPT !.index = index, !.retReward = RByIndex(m, index).reward],
              Outcome(m, RByIndex(m, index).res))

DoT ==
    /\ Ready
    /\ \E state \in StateNames, action \in ActionNames :
        Apply([Call("T") EXCEPT !.state = state, !.action = action,
                   !.retTransition = T(m, state, action).transition],
              Outcome(m, T(m, state, action).res))

DoTByIndex ==
    /\ Ready
    /\ \E index \in Indexes, action \in ActionNames :
        Apply([Call("TByIndex") EXCEPT !.index = index, !.action = action,
                   !.retTransition = TByIndex(m, index, action).transition],
              Outcome(m, TByIndex(m, index, action).res))

\* String is called on aggregates of at most MaxRendered rewards and entries.
DoString ==
    /\ Ready
    /\ Cardinality(DOMAIN m.rewards.table) <= MaxRendered
    /\ Cardinality(DOMAIN m.transitions) <= MaxRendered
    /\ \E o \in mdp_String(m) :
        Apply([Call("String") EXCEPT !.retString = o.text], Outcome(m, o.res))

Next ==
    \/ DoNewMDP
    \/ DoNewDefaultMDP
    \/ DoSetState
    \/ DoSetStateObject
    \/ DoSetInitialState
    \/ DoSetInitialStateObject
    \/ DoAddState
    \/ DoAddStateObject
    \/ DoRemoveStateByIndex
    \/ DoRemoveStateByName
    \/ DoRemoveStateByObject
    \/ DoAddAction
    \/ DoAddActionObject
    \/ DoRemoveAction
    \/ DoRemoveActionObject
    \/ DoSetDiscountRate
    \/ DoSetTransition
    \/ DoRemoveTransition
    \/ DoRemoveTransitionByAction
    \/ DoR
    \/ DoRByIndex
    \/ DoT
    \/ DoTByIndex
    \/ DoString

Spec == Init /\ [][Next]_vars

\* ---- the grid world (TestDefaultMDP) ----
\* utils.Uniform: float32(1 / support).  Both operands of the division are
\* ints, so the quotient is the integer quotient (1 for support 1, 0 above)
\* and a zero support panics; in hundredths, like every probability here.
Uniform(support) ==
    IF support = 0 THEN [res |-> "panic", probability |-> 0]
    ELSE [res |-> "return", probability |-> (1 \div support) * 100]

BoolToInt(b) == IF b THEN 1 ELSE 0

goUp == [name |-> "U", oid |-> 1]

goRight == [name |-> "R", oid |-> 1]

goLeft == [name |-> "L", oid |-> 1]

goDown == [name |-> "D", oid |-> 1]

topLeft == [name |-> "TL", index |-> 0, terminal |-> FALSE, oid |-> 1]

topCenter == [name |-> "TC", index |-> 1, terminal |-> FALSE, oid |-> 1]

topRight == [name |-> "TR", index |-> 2, terminal |-> FALSE, oid |-> 1]

middleLeft == [name |-> "ML", index |-> 3, terminal |-> FALSE, oid |-> 1]

middleCenter == [name |-> "MC", index |-> 4, terminal |-> FALSE, oid |-> 1]

middleRight == [name |-> "MR", index |-> 5, terminal |-> FALSE, oid |-> 1]

bottomLeft == [name |-> "BL", index |-> 6, terminal |-> FALSE, oid |-> 1]

bottomMiddle == [name |-> "BM", index |-> 7, terminal |-> FALSE, oid |-> 1]

bottomRight == [name |-> "BR", index |-> 8, terminal |-> TRUE, oid |-> 1]

\* The closure uniformMove: one transition per direction that is not nil,
\* each with the probability Uniform(number of such directions).
uniformMove(up, right, down, left) ==
    LET support == BoolToInt(up # NilState) + BoolToInt(down # NilState)
                       + BoolToInt(left # NilState) + BoolToInt(right # NilState)
        probability == Uniform(support)
        to == [a \in {goUp, goRight, goDown, goLeft} |->
                  IF a = goUp THEN up ELSE IF a = goRight THEN right
                  ELSE IF a = goDown THEN down ELSE left]
    IN  [res  |-> probability.res,
         dirs |-> [a \in {x \in DOMAIN to : to[x] # NilState} |->
                      NewTransition(probability.probability, to[a])]]

\* The nine AddStateObject calls of the test, in its order.
GridCalls ==
    << [state |-> topLeft,      reward |-> 0,
        move |-> uniformMove(NilState, topCenter, middleLeft, NilState)],
       [state |-> topCenter,    reward |-> -200,
        move |-> uniformMove(NilState, topRight, middleCenter, topLeft)],
       [state |-> topRight,     reward |-> 0,
        move |-> uniformMove(NilState, NilState, middleRight, topCenter)],
       [state |-> middleLeft,   reward |-> 0,
        move |-> uniformMove(topLeft, middleCenter, bottomLeft, NilState)],
       [state |-> middleCenter, reward |-> -200,
        move |-> uniformMove(topCenter, middleRight, bottomMiddle, middleLeft)],
       [state |-> middleRight,  reward |-> 0,
        move |-> uniformMove(topRight, NilState, bottomRight, middleCenter)],
       [state |-> bottomLeft,   reward |-> 0,
        move |-> uniformMove(middleLeft, bottomMiddle, NilState, NilState)],
       [state |-> bottomMiddle, reward |-> 0,
        move |-> uniformMove(middleCenter, middleRight, NilState, middleLeft)],
       [state |-> bottomRight,  reward |-> 1000,
        move |-> uniformMove(middleRight, NilState, NilState, middleCenter)] >>

GridStateNames == {GridCalls[k].state.name : k \in DOMAIN GridCalls}

GridActionNames == {goUp.name, goRight.name, goLeft.name, goDown.name}

\* The number of grid calls made so far.
GridAdded == Cardinality({k \in DOMAIN GridCalls : GridCalls[k].state \in Range(m.states)})

GridReady ==
    /\ phase = "ready"
    /\ nops < MaxGridOps

\* The next AddStateObject call of the test; a panic in uniformMove is a panic
\* of the test.
GridAddStateObject ==
    /\ GridReady
    /\ GridAdded < Len(GridCalls)
    /\ LET c == GridCalls[GridAdded + 1]
       IN  Apply([Call("AddStateObject") EXCEPT !.stateObj = c.state, !.reward = c.reward,
                      !.transitions = c.move.dirs],
                 IF c.move.res = "panic" THEN Outcome(m, "panic")
                 ELSE AddStateObject(m, c.state, c.reward, c.move.dirs))

GridR ==
    /\ GridReady
    /\ \E state \in GridStateNames :
        Apply([Call("R") EXCEPT !.state = state, !.retReward = R(m, state).reward],
              Outcome(m, R(m, state).res))

GridT ==
    /\ GridReady
    /\ \E state \in GridStateNames, action \in GridActionNames :
        Apply([Call("T") EXCEPT !.state = state, !.action = action,
                   !.retTransition = T(m, state, action).transition],
              Outcome(m, T(m, state, action).res))

GridNext ==
    \/ DoNewDefaultMDP
    \/ GridAddStateObject
    \/ GridR
    \/ GridT

GridSpec == Init /\ [][GridNext]_vars

\* ---- the claims ----
\* The call that made the last step returned without an error.
Succeeded == phase = "ready" /\ last.res \in {"nil", "return"}

\* C1: after NewMDP and after every successful mutation the three state
\* indexes agree: states[i] is non-nil iff stateIndexMap[i] holds that same
\* State iff stateMap holds that same State under its name.
C1_IndexesAgree ==
    Succeeded =>
        /\ \A i \in DOMAIN m.states :
              /\ getStateByIndex(m, i) = m.states[i]
              /\ getStateByName(m, m.states[i].name) = m.states[i]
        /\ \A i \in DOMAIN m.stateIndexMap :
              /\ i \in DOMAIN m.states
              /\ m.states[i] = m.stateIndexMap[i]
        /\ \A n \in DOMAIN m.stateMap :
              /\ m.stateMap[n].index \in DOMAIN m.states
              /\ m.states[m.stateMap[n].index] = m.stateMap[n]

\* C2: every state that resolves by index has a RewardsTable entry and a
\* TransitionTable entry, the initial state registered by NewMDP included.
C2_CoRegistered ==
    Succeeded =>
        \A i \in DOMAIN m.stateIndexMap :
            /\ i \in DOMAIN m.rewards.table
            /\ m.stateIndexMap[i] \in DOMAIN m.transitions

\* C3: every Action that is a key of a TransitionTableEntry is the object
\* registered under its name, and no entry has the nil Action as a key.
C3_EntryActionsRegistered ==
    Succeeded =>
        \A s \in DOMAIN m.transitions : \A a \in DOMAIN m.transitions[s] :
            a # NilAction /\ getAction(m, a.name) = a

\* C4: once RemoveStateByIndex(i) has succeeded and no state was registered
\* at i afterwards, a further RemoveStateByIndex(i) returns the not-found error.
C4_RemoveTwice ==
    [][ (last'.op = "RemoveStateByIndex" /\ last'.index \in removed)
            => last'.res = "state doesn't exist" ]_vars

\* C5: RemoveAction / RemoveActionObject of a registered action returns
\* success, the action leaves the registry and no live state keeps a
\* transition for it.
C5_RemoveActionCascades ==
    [][ \A a \in ActionNames :
          ( /\ \/ last'.op = "RemoveAction" /\ last'.action = a
               \/ last'.op = "RemoveActionObject" /\ last'.actionObj.name = a
            /\ getAction(m, a) # NilAction )
          => /\ last'.res = "nil"
             /\ a \notin DOMAIN m'.actions
             /\ \A s \in DOMAIN m'.transitions : getAction(m, a) \notin DOMAIN m'.transitions[s] ]_vars

\* What a state registered at index i keeps: its index, its reward and its
\* transition entry.
Kept(old, new, i) ==
    /\ getStateByIndex(new, i) = getStateByIndex(old, i)
    /\ (i \in DOMAIN old.rewards.table
          => i \in DOMAIN new.rewards.table /\ new.rewards.table[i] = old.rewards.table[i])
    /\ (getStateByIndex(old, i) \in DOMAIN old.transitions
          => /\ getStateByIndex(old, i) \in DOMAIN new.transitions
             /\ new.transitions[getStateByIndex(old, i)] = old.transitions[getStateByIndex(old, i)])

\* The lowest index at which no state is registered.
FirstUnregistered(old) == Min({i \in 0 .. old.statesLen : i \notin DOMAIN old.stateIndexMap})

\* C6: a successful AddState registers the new state at the lowest index with
\* no registered state, and every registered state keeps its index, reward
\* and transition entry.
C6_AddStateNoOverwrite ==
    [][ (last'.op = "AddState" /\ last'.res = "nil")
          => /\ \A i \in DOMAIN m.stateIndexMap : Kept(m, m', i)
             /\ getStateByIndex(m', FirstUnregistered(m)).name = last'.state
             /\ getStateByIndex(m, FirstUnregistered(m)) = NilState ]_vars

\* C7: a successful AddStateObject registers the new state at the first
\* unoccupied index, whatever index the object carries, and every registered
\* state stays registered with its reward and transition entry.
C7_AddStateObjectNoOverwrite ==
    [][ (last'.op = "AddStateObject" /\ last'.res = "nil")
          => /\ \A i \in DOMAIN m.stateIndexMap : Kept(m, m', i)
             /\ getStateByIndex(m', FirstUnregistered(m)).name = last'.stateObj.name ]_vars

\* (0, 1]
InUnitInterval(discountRate) ==
    ~discountRate.nan /\ discountRate.v > 0 /\ discountRate.v <= 100

\* C8: the stored discount rate is in (0, 1]; NewMDP returns an error and no
\* aggregate for a rate <= 0 or > 1; SetDiscountRate returns an error and
\* keeps the stored rate for such a rate; SetDiscountRate(1.0) stores 1.0.
C8_DiscountRate ==
    /\ phase \in {"ready", "panic"} => InUnitInterval(m.discountRate)
    /\ (last.op = "NewMDP" /\ ~last.discountRate.nan
            /\ (last.discountRate.v <= 0 \/ last.discountRate.v > 100))
          => phase = "failed" /\ m = NoMDP
    /\ (last.op = "SetDiscountRate" /\ ~last.discountRate.nan
            /\ (last.discountRate.v <= 0 \/ last.discountRate.v > 100))
          => last.res = "invalid discount rate"
    /\ (last.op = "SetDiscountRate" /\ last.discountRate = F(100))
          => last.res = "nil" /\ m.discountRate = F(100)

\* C9: the initial state, when set, is the State registered at index 0: the
\* object in states[0] and the one index 0 resolves to.
C9_InitialStateAtZero ==
    (Succeeded /\ m.initialState # NilState) =>
        /\ 0 \in DOMAIN m.states
        /\ m.states[0] = m.initialState
        /\ getStateByIndex(m, 0) = m.initialState

\* No two indexes resolve to states of the same name.
UniqueNames(a) ==
    \A i, j \in DOMAIN a.stateIndexMap :
        a.stateIndexMap[i].name = a.stateIndexMap[j].name => i = j

\* C10: successful SetState / SetStateObject / AddState / AddStateObject calls
\* keep the names of the registered states unique.
C10_UniqueNames ==
    [][ ( /\ last'.op \in {"SetState", "SetStateObject", "AddState", "AddStateObject"}
          /\ last'.res = "nil"
          /\ UniqueNames(m) )
          => UniqueNames(m') ]_vars

\* What is stored for a State object: its slot, reward entry and
\* transition entry are the same in both aggregates.
SameStored(old, new, s) ==
    /\ (s.index \in DOMAIN old.states /\ old.states[s.index] = s)
          <=> (s.index \in DOMAIN new.states /\ new.states[s.index] = s)
    /\ (s.index \in DOMAIN old.rewards.stateMap /\ old.rewards.stateMap[s.index] = s)
          <=> (s.index \in DOMAIN new.rewards.stateMap /\ new.rewards.stateMap[s.index] = s)
    /\ (s \in DOMAIN old.transitions) <=> (s \in DOMAIN new.transitions)
    /\ s \in DOMAIN old.transitions => new.transitions[s] = old.transitions[s]

\* Nothing is stored for a State object: no slot, reward entry or transition entry.
NothingStored(a, s) ==
    /\ ~(s.index \in DOMAIN a.states /\ a.states[s.index] = s)
    /\ ~(s.index \in DOMAIN a.rewards.stateMap /\ a.rewards.stateMap[s.index] = s)
    /\ s \notin DOMAIN a.transitions

\* The name a RemoveStateByName / RemoveStateByObject call was given.
RemovedName(c) == IF c.op = "RemoveStateByName" THEN c.state ELSE c.stateObj.name

\* C11: RemoveStateByName / RemoveStateByObject return the not-found error
\* when no state is registered under the name, also when the state of that
\* name was removed by an earlier RemoveStateBy... call; when they succeed,
\* the state the name resolved to is removed and every other state keeps
\* what is stored for it.
C11_RemoveByNameNotFound ==
    [][ last'.op \in {"RemoveStateByName", "RemoveStateByObject"} =>
          /\ (RemovedName(last') \notin DOMAIN m.stateMap \/ RemovedName(last') \in removedNames)
                => last'.res = "state doesn't exist"
          /\ last'.res = "nil"
                => /\ NothingStored(m', getStateByName(m, RemovedName(last')))
                   /\ \A s \in InUseStates(m) \ {NilState, getStateByName(m, RemovedName(last'))} :
                         SameStored(m, m', s) ]_vars

\* C12: R(name) and RByIndex(index) with a name or index that resolves to no
\* registered state return the zero reward and do not crash.
C12_RewardOfUnknownIsZero ==
    [][ /\ (last'.op = "R" /\ getStateByName(m, last'.state) = NilState)
              => last'.res = "return" /\ last'.retReward = 0
        /\ (last'.op = "RByIndex" /\ getStateByIndex(m, last'.index) = NilState)
              => last'.res = "return" /\ last'.retReward = 0 ]_vars

\* The State a T / TByIndex call resolves its first argument to.
QueriedState(a, c) ==
    IF c.op = "T" THEN getStateByName(a, c.state) ELSE getStateByIndex(a, c.index)

\* C13: T(name, action) and TByIndex(index, action) with an unknown state, with
\* a state that has no transition entry, or with an unknown action name
\* return the nil Transition and do not crash.
C13_TransitionOfUnknownIsAbsent ==
    [][ ( /\ last'.op \in {"T", "TByIndex"}
          /\ \/ QueriedState(m, last') = NilState
             \/ QueriedState(m, last') \notin DOMAIN m.transitions
             \/ getAction(m, last'.action) = NilAction )
          => last'.res = "return" /\ last'.retTransition = NilTransition ]_vars

\* C14: after a successful SetState(name, index, terminal, reward, transitions),
\* RByIndex(index) and R(name) return reward; T(name, a) returns the given
\* probability and destination for every action name a of transitions and the
\* nil Transition for every other action name; every action name of
\* transitions is registered and the actions registered before are kept; and
\* for index 0 the initial state is the new state.
C14_SetStateContract ==
    [][ (last'.op = "SetState" /\ last'.res = "nil") =>
          LET name        == last'.state
              index       == last'.index
              transitions == last'.transitions
          IN  /\ RByIndex(m', index) = [res |-> "return", reward |-> last'.reward]
              /\ R(m', name) = [res |-> "return", reward |-> last'.reward]
              /\ getStateByIndex(m', index) = getStateByName(m', name)
              /\ getStateByName(m', name).name = name
              /\ getStateByName(m', name).index = index
              /\ getStateByName(m', name).terminal = last'.terminal
              /\ \A a \in DOMAIN transitions :
                    T(m', name, a) =
                        [res |-> "return",
                         transition |-> NewTransition(transitions[a].probability,
                                                      transitions[a].nextState)]
              /\ \A b \in ActionNames \ DOMAIN transitions :
                    T(m', name, b) = [res |-> "return", transition |-> NilTransition]
              /\ \A a \in DOMAIN transitions : getAction(m', a) # NilAction
              /\ \A a \in DOMAIN m.actions : getAction(m', a) = getAction(m, a)
              /\ index = 0 => m'.initialState = getStateByName(m', name) ]_vars

\* A SetState at index 0 with transitions for two action names has succeeded.
C14_Witness ==
    /\ phase = "ready"
    /\ last.op = "SetState"
    /\ last.res = "nil"
    /\ last.index = 0
    /\ DOMAIN last.transitions = {"U", "R"}
    /\ m.initialState.name = last.state

\* C15: after a successful SetStateObject(s, reward, transitions),
\* T(s.Name(), a.Name()) returns the given transition for every Action a of
\* transitions, also when a's name was registered as another Action object;
\* and after a RemoveAction of a registered name no entry keeps a transition
\* under an Action of that name.
C15_SetStateObjectContract ==
    [][ /\ (last'.op = "SetStateObject" /\ last'.res = "nil") =>
              \A a \in DOMAIN last'.transitions :
                  T(m', last'.stateObj.name, a.name) =
                      [res |-> "return",
                       transition |-> NewTransition(last'.transitions[a].probability,
                                                    last'.transitions[a].nextState)]
        /\ (last'.op = "RemoveAction" /\ getAction(m, last'.action) # NilAction) =>
              /\ last'.res = "nil"
              /\ \A s \in DOMAIN m'.transitions : \A k \in DOMAIN m'.transitions[s] :
                    k.name # last'.action ]_vars

\* The name a SetInitialState / SetInitialStateObject call was given.
InitialName(c) == IF c.op = "SetInitialState" THEN c.state ELSE c.stateObj.name

\* C16: after a successful SetInitialState or SetInitialStateObject the state
\* registered at index 0 is the given state and it is the initial state,
\* whatever index the State object carries, and no other index is modified.
C16_InitialStatePinned ==
    [][ (last'.op \in {"SetInitialState", "SetInitialStateObject"} /\ last'.res = "nil") =>
          /\ getStateByIndex(m', 0) # NilState
          /\ getStateByIndex(m', 0).name = InitialName(last')
          /\ m'.initialState = getStateByIndex(m', 0)
          /\ DOMAIN m'.stateIndexMap \subseteq (DOMAIN m.stateIndexMap) \cup {0}
          /\ \A i \in (DOMAIN m.stateIndexMap) \ {0} : Kept(m, m', i) ]_vars

\* C17: SetState and SetStateObject return an error when the index is
\* negative or the name is empty, and the aggregate is then unchanged.
C17_SetStateRejects ==
    [][ /\ (last'.op = "SetState" /\ (last'.index < 0 \/ last'.state = "")) =>
              /\ last'.res \in {"index must be non-negative", "name must be provided"}
              /\ m' = m
        /\ (last'.op = "SetStateObject"
              /\ (last'.stateObj.index < 0 \/ last'.stateObj.name = "")) =>
              /\ last'.res \in {"index must be non-negative", "name must be provided"}
              /\ m' = m ]_vars

\* SetStateObject has rejected a State with an empty name whose index holds
\* a registered state with a reward and a transition entry.
C17_Witness ==
    /\ phase = "ready"
    /\ last.op = "SetStateObject"
    /\ last.res = "name must be provided"
    /\ last.stateObj.index \in DOMAIN m.rewards.table
    /\ getStateByIndex(m, last.stateObj.index) \in DOMAIN m.transitions

\* C18: SetState at an index at or beyond the current capacity succeeds, the
\* backing array then has more slots than the index, and every other
\* registered state still resolves by index and by name to the same object
\* with its reward and its transition entry.
C18_GrowthPreserves ==
    [][ ( /\ last'.op = "SetState"
          /\ last'.index >= m.statesCapacity
          /\ last'.state # "" ) =>
          /\ last'.res = "nil"
          /\ m'.statesLen > last'.index
          /\ m'.statesCapacity > last'.index
          /\ \A i \in (DOMAIN m.stateIndexMap) \ {last'.index} : Kept(m, m', i)
          /\ \A n \in (DOMAIN m.stateMap) \ {last'.state} :
                getStateByName(m', n) = getStateByName(m, n) ]_vars

\* C19: after a successful RemoveStateByIndex(i) the removed state's reward
\* entry and transition entry are gone; every other reward entry and every
\* other state's transition entry (transitions into the removed state
\* included) are unchanged; the action registry is unchanged.
C19_RemoveStateNoCascade ==
    [][ (last'.op = "RemoveStateByIndex" /\ last'.res = "nil") =>
          LET sOld == getStateByIndex(m, last'.index)
          IN  /\ DOMAIN m'.rewards.table = (DOMAIN m.rewards.table) \ {last'.index}
              /\ DOMAIN m'.rewards.stateMap = (DOMAIN m.rewards.stateMap) \ {last'.index}
              /\ \A j \in DOMAIN m'.rewards.table :
                    /\ m'.rewards.table[j] = m.rewards.table[j]
                    /\ m'.rewards.stateMap[j] = m.rewards.stateMap[j]
              /\ DOMAIN m'.transitions = (DOMAIN m.transitions) \ {sOld}
              /\ \A s \in DOMAIN m'.transitions : m'.transitions[s] = m.transitions[s]
              /\ m'.actions = m.actions ]_vars

\* RemoveStateByIndex has removed a state that is the destination of a
\* transition of another state.
C19_Witness ==
    /\ phase = "ready"
    /\ last.op = "RemoveStateByIndex"
    /\ last.res = "nil"
    /\ last.index \in removed
    /\ \E s \in DOMAIN m.transitions : \E a \in DOMAIN m.transitions[s] :
          /\ s.index # last.index
          /\ m.transitions[s][a].nextState.index = last.index

\* The action name an AddAction / AddActionObject / RemoveAction /
\* RemoveActionObject call was given.
ActionName(c) == IF c.op \in {"AddAction", "RemoveAction"} THEN c.action ELSE c.actionObj.name

\* C20: AddAction / AddActionObject return the already-exists error iff an
\* action of that name is registered; RemoveAction / RemoveActionObject return
\* the not-found error iff none is; a call that returns either error leaves
\* the aggregate unchanged; a successful AddAction / AddActionObject adds
\* that one name and changes no other action and no transition entry.
C20_ActionRegistryErrors ==
    [][ /\ last'.op \in {"AddAction", "AddActionObject"} =>
              /\ last'.res = "action already exists" <=> ActionName(last') \in DOMAIN m.actions
              /\ last'.res = "action already exists" => m' = m
              /\ last'.res # "action already exists" =>
                    /\ last'.res = "nil"
                    /\ DOMAIN m'.actions = (DOMAIN m.actions) \cup {ActionName(last')}
                    /\ \A n \in DOMAIN m.actions : m'.actions[n] = m.actions[n]
                    /\ m'.actions[ActionName(last')].name = ActionName(last')
                    /\ m'.transitions = m.transitions
        /\ last'.op \in {"RemoveAction", "RemoveActionObject"} =>
              /\ last'.res = "action doesn't exist" <=> ActionName(last') \notin DOMAIN m.actions
              /\ last'.res = "action doesn't exist" => m' = m ]_vars

\* AddActionObject has rejected an Action whose name is registered as another
\* object, in an aggregate that holds a transition.
C20_Witness ==
    /\ phase = "ready"
    /\ last.op = "AddActionObject"
    /\ last.res = "action already exists"
    /\ getAction(m, last.actionObj.name) # last.actionObj
    /\ \E s \in DOMAIN m.transitions : DOMAIN m.transitions[s] # {}

\* C21: after a SetTransition(start, end, action, p) that returns, on
\* registered start and end names and a registered action name, T(start,
\* action) returns probability p with the state named end as destination;
\* every other transition, every reward and both registries are unchanged.
C21_SetTransitionFrame ==
    [][ ( /\ last'.op = "SetTransition"
          /\ last'.res = "return"
          /\ getStateByName(m, last'.state) # NilState
          /\ getStateByName(m, last'.endState) # NilState
          /\ getAction(m, last'.action) # NilAction ) =>
          LET s == getStateByName(m, last'.state)
              a == getAction(m, last'.action)
          IN  /\ T(m', last'.state, last'.action) =
                    [res |-> "return",
                     transition |-> NewTransition(last'.probability,
                                                  getStateByName(m, last'.endState))]
              /\ T(m', last'.state, last'.action).transition.nextState.name = last'.endState
              /\ DOMAIN m'.transitions = DOMAIN m.transitions
              /\ \A x \in DOMAIN m.transitions :
                    /\ DOMAIN m'.transitions[x] =
                          (DOMAIN m.transitions[x]) \cup (IF x = s THEN {a} ELSE {})
                    /\ \A b \in DOMAIN m.transitions[x] :
                          (x # s \/ b # a) => m'.transitions[x][b] = m.transitions[x][b]
              /\ m'.rewards = m.rewards
              /\ m'.actions = m.actions
              /\ m'.stateMap = m.stateMap
              /\ m'.stateIndexMap = m.stateIndexMap
              /\ m'.states = m.states ]_vars

\* SetTransition has set a transition between two registered states for a
\* registered action, in an entry that holds a transition for another action.
C21_Witness ==
    /\ phase = "ready"
    /\ last.op = "SetTransition"
    /\ last.res = "return"
    /\ getStateByName(m, last.endState) # NilState
    /\ getAction(m, last.action) # NilAction
    /\ getStateByName(m, last.state) \in DOMAIN m.transitions
    /\ getAction(m, last.action) \in DOMAIN m.transitions[getStateByName(m, last.state)]
    /\ Cardinality(DOMAIN m.transitions[getStateByName(m, last.state)]) > 1
    /\ m.transitions[getStateByName(m, last.state)][getAction(m, last.action)].probability
          = last.probability

\* C22: SetTransition fails (transitionTable.Update panics) when the start
\* state has no transition entry, and the failed call stores nothing.
C22_SetTransitionNoEntry ==
    [][ ( /\ last'.op = "SetTransition"
          /\ getStateByName(m, last'.state) \notin DOMAIN m.transitions ) =>
          /\ last'.res = "panic"
          /\ m' = m ]_vars

\* SetTransition has failed for a start name that still resolves after its
\* state was removed.
C22_Witness ==
    /\ phase = "panic"
    /\ last.op = "SetTransition"
    /\ last.res = "panic"
    /\ last.state \in removedNames
    /\ getStateByName(m, last.state) # NilState
    /\ getStateByName(m, last.state) \notin DOMAIN m.transitions

\* SetTransition has failed for the initial state that NewMDP registered.
C22_InitialStateHasNoEntry ==
    /\ phase = "panic"
    /\ last.op = "SetTransition"
    /\ nops = 1
    /\ getStateByName(m, last.state) = m.initialState
    /\ m.initialState # NilState

\* C23: NewMDP (with a valid rate) returns the "action not in MDP" error
\* exactly when some listed state other than the initial state is not
\* terminal and its transition map names an action that is not in the
\* action list.
C23_ActionNotInMDP ==
    (last.op = "NewMDP" /\ ~RateRejected(last.discountRate)) =>
        ( last.res = "action not in MDP"
          <=> \E k \in 1 .. Len(last.states) :
                 /\ last.states[k] # last.initialState
                 /\ last.states[k] \notin last.terminals
                 /\ last.states[k] \in DOMAIN last.transitionsByState
                 /\ \E a \in DOMAIN last.transitionsByState[last.states[k]] :
                        a \notin last.actions )

\* C24: String is deterministic: whatever a call of String returns, every
\* call on the same aggregate returns the same text.
C24_StringDeterministic ==
    [][ last'.op = "String" =>
          \A o \in mdp_String(m) : o.res = last'.res /\ o.text = last'.retString ]_vars

\* The states registered in an aggregate: those an index resolves to that no
\* RemoveStateBy... call has removed since.
RegisteredStates ==
    {m.stateIndexMap[i] : i \in {j \in DOMAIN m.stateIndexMap :
                                    j \notin removed /\ m.stateIndexMap[j].name \notin removedNames}}

\* The text contains the name.
Contains(text, name) ==
    \E i \in 1 .. Len(text) : SubSeq(text, i, i + Len(name) - 1) = name

\* C26: the S line of a text that String returned has one entry for each
\* registered state and none for a removed state, and its A line contains
\* the name of every registered action.
C26_StringComplete ==
    (phase = "ready" /\ last.op = "String" /\ last.res = "return") =>
        /\ {last.retString.S[i] : i \in DOMAIN last.retString.S}
              = {state_String(s) : s \in RegisteredStates}
        /\ Len(last.retString.S) = Cardinality(RegisteredStates)
        /\ \A n \in DOMAIN m.actions : Contains(last.retString.A, n)

\* C30: String returns on every aggregate it is called on, the aggregate of
\* NewDefaultMDP and aggregates without a registered action included.
C30_StringCompletes ==
    last.op = "String" => last.res = "return"

\* No entry holds a transition under the nil Action or with a nil destination.
NoNilTransition(a) ==
    \A s \in DOMAIN a.transitions : \A k \in DOMAIN a.transitions[s] :
        k # NilAction /\ a.transitions[s][k].nextState # NilState

\* C27: SetTransition with a start name, end name or action name that is not
\* registered fails and stores nothing: the transition entries are unchanged
\* and it leaves no transition with a nil destination or under a nil Action
\* where there was none.
C27_SetTransitionUnknown ==
    [][ ( /\ last'.op = "SetTransition"
          /\ \/ getStateByName(m, last'.state) = NilState
             \/ getStateByName(m, last'.endState) = NilState
             \/ getAction(m, last'.action) = NilAction ) =>
          /\ last'.res = "panic"
          /\ m'.transitions = m.transitions
          /\ NoNilTransition(m) => NoNilTransition(m') ]_vars

\* Apart from the entry of state s, which lost exactly the transitions under
\* the Actions of `gone`, the aggregate new is the aggregate old.
OnlyRemoved(old, new, s, gone) ==
    /\ s \in DOMAIN old.transitions
    /\ new = [old EXCEPT !.transitions[s] = [a \in (DOMAIN @) \ gone |-> @[a]]]

\* C28: RemoveTransition(start, end) on registered states removes from the
\* entry of start every transition whose destination has the index of end,
\* whatever its action, and nothing else; RemoveTransitionByAction(start,
\* action) on a registered state and action removes the transition of that
\* action and nothing else.
C28_RemoveTransitionFrame ==
    [][ /\ ( /\ last'.op = "RemoveTransition"
             /\ getStateByName(m, last'.state) # NilState
             /\ getStateByName(m, last'.endState) # NilState ) =>
              LET s == getStateByName(m, last'.state)
              IN  /\ last'.res = "return"
                  /\ OnlyRemoved(m, m', s,
                        {a \in DOMAIN m.transitions[s] :
                            m.transitions[s][a].nextState.index
                                = getStateByName(m, last'.endState).index})
        /\ ( /\ last'.op = "RemoveTransitionByAction"
             /\ getStateByName(m, last'.state) # NilState
             /\ getAction(m, last'.action) # NilAction ) =>
              /\ last'.res = "return"
              /\ OnlyRemoved(m, m', getStateByName(m, last'.state),
                             {getAction(m, last'.action)}) ]_vars

\* C29: in every aggregate NewMDP and the mutations produce, a state stored
\* in slot i of the states slice has Index() = i.
C29_SlotHoldsOwnIndex ==
    phase = "ready" => \A i \in DOMAIN m.states : m.states[i].index = i

\* C25: in the grid world every AddStateObject call returns no error, every
\* stored transition has the probability 1 / (number of directions of its
\* state), and on the finished grid R("BR") is 10 and T("TL", "R") has
\* probability 1/2.
C25_GridWorld ==
    /\ last.op = "AddStateObject" => last.res = "nil"
    /\ \A s \in DOMAIN m.transitions : \A a \in DOMAIN m.transitions[s] :
          m.transitions[s][a].probability * Cardinality(DOMAIN m.transitions[s]) = 100
    /\ (GridAdded = Len(GridCalls) /\ last.op = "R" /\ last.state = "BR") =>
          (last.res = "return" /\ last.retReward = 1000)
    /\ (GridAdded = Len(GridCalls) /\ last.op = "T" /\ last.state = "TL" /\ last.action = "R") =>
          (last.res = "return" /\ last.retTransition.probability = 50)

\* What the code does in C25: every call returns no error and R("BR") is 10.
C25_GridCallsSucceed ==
    /\ last.op = "AddStateObject" => last.res = "nil"
    /\ (GridAdded = Len(GridCalls) /\ last.op = "R" /\ last.state = "BR") =>
          (last.res = "return" /\ last.retReward = 1000)

\* What the code does in C25: the probabilities are integer quotients.
C25_IntegerQuotient ==
    /\ \A s \in DOMAIN m.transitions : \A a \in DOMAIN m.transitions[s] :
          m.transitions[s][a].probability = 0
    /\ (GridAdded = Len(GridCalls) /\ last.op = "T" /\ last.state = "TL" /\ last.action = "R") =>
          (last.res = "return" /\ ~last.retTransition.isNil /\ last.retTransition.probability = 0)

\* The finished grid is queried for T("TL", "R").
C25_Queried ==
    GridAdded = Len(GridCalls) /\ last.op = "T" /\ last.state = "TL" /\ last.action = "R"

====
